---------------------------- MODULE Spec2Model ----------------------------
(***************************************************************************)
(* A model of src/src/Server.cpp: a thread-per-connection RESP server with *)
(* a shared, mutex-protected, expiry-aware key/value store.                *)
(*                                                                         *)
(* A std::string is a sequence of one-character strings; CR and LF are the *)
(* bytes '\r' and '\n'.                                                    *)
(***************************************************************************)
EXTENDS Integers, Sequences, FiniteSets, TLC

CR == "\r"
LF == "\n"

-----------------------------------------------------------------------------
(* Byte-string helpers (std::string members used by the code).             *)

\* s.substr(pos): the suffix of s from 0-based position pos.
substr(s, pos) == SubSeq(s, pos + 1, Len(s))

\* s.substr(0, n): the first n bytes of s.
prefix(s, n) == SubSeq(s, 1, n)

\* line[0] of a std::string: the terminating '\0' when the string is empty.
NUL == "\\0"
first_char(s) == IF Len(s) = 0 THEN NUL ELSE s[1]

\* s.find("\r\n"): the least 0-based position of CR LF in s, or -1 (npos).
find_crlf(s) ==
  LET hits == {i \in 1..(Len(s) - 1) : s[i] = CR /\ s[i + 1] = LF}
  IN  IF hits = {} THEN -1
      ELSE (CHOOSE i \in hits : \A j \in hits : i <= j) - 1

\* The least 1-based position of LF in s, or 0.
find_lf(s) ==
  LET hits == {i \in 1..Len(s) : s[i] = LF}
  IN  IF hits = {} THEN 0 ELSE CHOOSE i \in hits : \A j \in hits : i <= j

-----------------------------------------------------------------------------
(* toupper / to_upper, Server.cpp:69-75.                                   *)

LowerCase == <<"a","b","c","d","e","f","g","h","i","j","k","l","m",
               "n","o","p","q","r","s","t","u","v","w","x","y","z">>
UpperCase == <<"A","B","C","D","E","F","G","H","I","J","K","L","M",
               "N","O","P","Q","R","S","T","U","V","W","X","Y","Z">>

toupper(c) ==
  IF \E i \in 1..Len(LowerCase) : LowerCase[i] = c
  THEN UpperCase[CHOOSE i \in 1..Len(LowerCase) : LowerCase[i] = c]
  ELSE c

\* A conversion that leaves the string as it is.
to_upper_asis(str) == str

to_upper(str) == [i \in 1..Len(str) |-> toupper(str[i])]

-----------------------------------------------------------------------------
(* std::stoi / std::stol (strtol, base 10): skip leading white space, take *)
(* an optional sign, then the longest run of digits; trailing bytes are    *)
(* ignored.  No digit: std::invalid_argument.  Out of range:               *)
(* std::out_of_range.  The result is [throws, val].                        *)

DigitChars == <<"0","1","2","3","4","5","6","7","8","9">>
isdigit(c) == \E i \in 1..10 : DigitChars[i] = c
digit_val(c) == (CHOOSE i \in 1..10 : DigitChars[i] = c) - 1
isspace(c) == c \in {" ", "\t", LF, CR, "\f"}

\* INT_MAX of the build (32-bit int).
INT_MAX == 2147483647

RECURSIVE skip_space(_)
skip_space(s) ==
  IF Len(s) > 0 /\ isspace(s[1]) THEN skip_space(Tail(s)) ELSE s

\* The magnitude of the leading digit run of s, or -1 once it exceeds max.
RECURSIVE digits_value(_, _, _)
digits_value(s, acc, max) ==
  IF Len(s) = 0 \/ ~isdigit(s[1]) THEN acc
  ELSE LET d == digit_val(s[1])
       IN  IF acc > (max - d) \div 10 THEN -1
           ELSE digits_value(Tail(s), acc * 10 + d, max)

strtol(str, max) ==
  LET s1  == skip_space(str)
      neg == Len(s1) > 0 /\ s1[1] = "-"
      s2  == IF Len(s1) > 0 /\ s1[1] \in {"-", "+"} THEN Tail(s1) ELSE s1
      mag == digits_value(s2, 0, max)
  IN  IF Len(s2) = 0 \/ ~isdigit(s2[1]) THEN [throws |-> TRUE, val |-> 0]
      ELSE IF mag = -1 THEN [throws |-> TRUE, val |-> 0]
      ELSE [throws |-> FALSE, val |-> IF neg THEN 0 - mag ELSE mag]

stoi(str) == strtol(str, INT_MAX)

\* A conversion in the manner of atoi: 0 where std::stol would throw.
stol_atoi(str) ==
  LET r == strtol(str, INT_MAX)
  IN  IF r.throws THEN [throws |-> FALSE, val |-> 0] ELSE r

\* std::stol: a 64-bit long.  The model's texts are short, so the range
\* test is never reached.
stol(str) == strtol(str, INT_MAX)

-----------------------------------------------------------------------------
(* std::getline(iss, line) on an istringstream, and parse_resp,            *)
(* Server.cpp:44-66.  A stream is [rest, good]; getline leaves line alone  *)
(* when the stream is no longer good, clears it otherwise, and reads up to *)
(* and including the next LF (the LF is dropped, a CR before it is kept).  *)

getline(st, line) ==
  IF ~st.good THEN [st |-> st, line |-> line]
  ELSE LET p == find_lf(st.rest)
       IN  IF p = 0
           THEN [st |-> [rest |-> <<>>, good |-> FALSE], line |-> st.rest]
           ELSE [st   |-> [rest |-> SubSeq(st.rest, p + 1, Len(st.rest)),
                           good |-> TRUE],
                 line |-> SubSeq(st.rest, 1, p - 1)]

\* The for loop of lines 55-63.
RECURSIVE parse_loop(_, _, _, _, _)
parse_loop(st, line, i, array_len, parts) ==
  IF i >= array_len THEN parts
  ELSE LET g1 == getline(st, line)
       IN  IF first_char(g1.line) # "$"
           THEN parse_loop(g1.st, g1.line, i + 1, array_len, parts)
           ELSE LET g2 == getline(g1.st, g1.line)
                IN  parse_loop(g2.st, g2.line, i + 1, array_len,
                               Append(parts, g2.line))

\* [throws, parts]: throws when std::stoi throws out of parse_resp.
parse_resp(input) ==
  LET g0 == getline([rest |-> input, good |-> TRUE], <<>>)
  IN  IF first_char(g0.line) # "*" THEN [throws |-> FALSE, parts |-> <<>>]
      ELSE LET n == stoi(substr(g0.line, 1))
           IN  IF n.throws THEN [throws |-> TRUE, parts |-> <<>>]
               ELSE [throws |-> FALSE,
                     parts  |-> parse_loop(g0.st, g0.line, 0, n.val, <<>>)]

-----------------------------------------------------------------------------
(* Command names and replies, as the byte strings of handle_command.       *)

CmdPING == <<"P","I","N","G">>
CmdECHO == <<"E","C","H","O">>
CmdSET  == <<"S","E","T">>
CmdGET  == <<"G","E","T">>
OptPX   == <<"P","X">>

CRLF == <<CR, LF>>
ErrPrefix == <<"-","E","R","R">>

RespPong == <<"+","P","O","N","G">> \o CRLF
RespOk   == <<"+","O","K">> \o CRLF
RespNil  == <<"$","-","1">> \o CRLF
RespErrEmpty ==
  ErrPrefix \o <<" ","e","m","p","t","y"," ","c","o","m","m","a","n","d">>
            \o CRLF
RespErrUnknown ==
  ErrPrefix \o <<" ","u","n","k","n","o","w","n"," ",
                 "c","o","m","m","a","n","d">> \o CRLF
RespErrExpire ==
  ErrPrefix \o <<" ","i","n","v","a","l","i","d"," ","e","x","p","i","r","e",
                 " ","t","i","m","e"," ","i","n"," ","'","s","e","t","'"," ",
                 "c","o","m","m","a","n","d">> \o CRLF

\* "+" + s + "\r\n" (lines 87 and 110).
simple_string(s) == <<"+">> \o s \o CRLF

-----------------------------------------------------------------------------
(* ValueWithExpiry, Server.cpp:20-37.  Instants and durations of           *)
(* steady_clock are counted in nanoseconds.                                *)

\* std::chrono::milliseconds -> steady_clock::duration (std::nano).
NsPerMs == 1000000

\* ValueWithExpiry(val): expiry is value-initialised (the clock's epoch).
ValueWithExpiry1(val) ==
  [value |-> val, expiry |-> 0, has_expiry |-> FALSE]

\* ValueWithExpiry(val, px_millis), constructed at instant t.
ValueWithExpiry2(val, px_millis, t) ==
  [value |-> val, expiry |-> t + px_millis * NsPerMs, has_expiry |-> TRUE]

\* An entry that never expires.
is_expired_never(e, t) == FALSE

\* is_expired() evaluated at instant t.
is_expired(e, t) == IF ~e.has_expiry THEN FALSE ELSE t > e.expiry

-----------------------------------------------------------------------------
(* Bounds of the model.                                                    *)

\* Connections accepted by main (one detached thread each, lines 187-201).
NConns == 2
\* Commands dispatched in a run of Spec, over all connections.
MaxCmds == 2
\* Clock advances in a run of Spec.
MaxTicks == 1
\* Commands dispatched and clock advances in a run of SpecCmd.
MaxSeqCmds == 2
MaxSeqTicks == 2
\* Chunks the client sends in a run of SpecWire.
MaxFrames == 2

Conns == 1..NConns
NoOwner == 0

-----------------------------------------------------------------------------
(* State.                                                                  *)

VARIABLES
  kv_store,         \* the global map (line 40): key -> ValueWithExpiry
  kv_mutex,         \* the global mutex (line 41): its owner, or NoOwner
  now,              \* steady_clock::now(), in nanoseconds
  aborted,          \* the process was terminated (std::terminate, a crash)
  pc,               \* per connection: the thread's position in handle_client
  incomplete_data,  \* per connection: the buffer of line 123
  parts,            \* per connection: the request being handled (line 142)
  response,         \* per connection: the reply of handle_command (line 143)
  tmp,              \* per connection: the ValueWithExpiry temporary of SET
  sock,             \* per connection: bytes the client sent, not yet read
  out,              \* per connection: the bytes handed to send, in order
  sent,             \* per connection: the frames the client sent (observer)
  ncmd,             \* commands dispatched so far (observer)
  op,               \* per connection: the command in flight (observer)
  cand,             \* completed SETs not surely overwritten (observer)
  everset,          \* keys some completed SET has written (observer)
  seen,             \* per connection: cand when its SET began (observer)
  allowed           \* per connection: the SETs a GET in flight may observe

prog_vars == <<kv_store, kv_mutex, now, aborted, pc, incomplete_data, parts,
               response, tmp, sock, out>>
obs_vars  == <<sent, ncmd, op, cand, everset, seen, allowed>>
vars == <<prog_vars, obs_vars>>

NoEntry == [value |-> <<>>, expiry |-> 0, has_expiry |-> FALSE]
NoOp == [kind |-> "none", key |-> <<>>, val |-> <<>>, wild |-> FALSE,
         has_px |-> FALSE, px |-> 0, lo |-> 0]
EmptyStore == [k \in {} |-> NoEntry]

Init ==
  /\ kv_store = EmptyStore
  /\ kv_mutex = NoOwner
  /\ now = 0
  /\ aborted = FALSE
  /\ pc = [c \in Conns |-> "recv"]
  /\ incomplete_data = [c \in Conns |-> <<>>]
  /\ parts = [c \in Conns |-> <<>>]
  /\ response = [c \in Conns |-> <<>>]
  /\ tmp = [c \in Conns |-> NoEntry]
  /\ sock = [c \in Conns |-> <<>>]
  /\ out = [c \in Conns |-> <<>>]
  /\ sent = [c \in Conns |-> <<>>]
  /\ ncmd = 0
  /\ op = [c \in Conns |-> NoOp]
  /\ cand = {}
  /\ everset = {}
  /\ seen = [c \in Conns |-> {}]
  /\ allowed = [c \in Conns |-> {}]

-----------------------------------------------------------------------------
(* handle_command, Server.cpp:78-119, in the steps a thread takes.         *)

\* Lines 79-89, 105, 118: everything up to taking the lock.  The result is
\* the thread's next position and, when the reply is already known, the
\* reply.
dispatch(p) ==
  IF Len(p) = 0 THEN [pc |-> "send", response |-> RespErrEmpty]
  ELSE LET command == to_upper(p[1])
       IN  IF command = CmdPING
             THEN [pc |-> "send", response |-> RespPong]
           ELSE IF command = CmdECHO /\ Len(p) > 1
             THEN [pc |-> "send", response |-> simple_string(p[2])]
           ELSE IF command = CmdSET /\ Len(p) >= 2
             THEN [pc |-> "lock_set", response |-> <<>>]
           ELSE IF command = CmdGET /\ Len(p) > 1
             THEN [pc |-> "lock_get", response |-> <<>>]
           ELSE [pc |-> "send", response |-> RespErrUnknown]

\* A lock that never blocks.
can_lock_always == TRUE

\* std::lock_guard's constructor (lines 90, 106) blocks until this holds.
can_lock == kv_mutex = NoOwner

\* Line 93: the PX option is present.
has_px_option(p) ==
  Len(p) >= 4 /\ to_upper(p[4]) = OptPX /\ Len(p) >= 5

\* An assignment into a map that keeps no other key.
store_value_alone(store, key, val) ==
  [k \in {key} |-> [value |-> val, expiry |-> 0, has_expiry |-> FALSE]]

\* kv_store[key], then the copy of the value member (lines 96, 101).
store_value(store, key, val) ==
  [k \in (DOMAIN store) \cup {key} |->
     IF k = key
     THEN [value |-> val,
           expiry |-> IF key \in DOMAIN store THEN store[key].expiry ELSE 0,
           has_expiry |-> IF key \in DOMAIN store
                          THEN store[key].has_expiry ELSE FALSE]
     ELSE store[k]]

\* An assignment that copies the expiry members only when an expiry is set,
\* and so leaves a prior expiry in place.
store_expiry_partial(store, key, e) ==
  [k \in DOMAIN store |->
     IF k = key /\ e.has_expiry
     THEN [value |-> store[k].value, expiry |-> e.expiry,
           has_expiry |-> TRUE]
     ELSE store[k]]

\* The copy of the expiry and has_expiry members (lines 96, 101).
store_expiry(store, key, e) ==
  [k \in DOMAIN store |->
     IF k = key
     THEN [value |-> store[k].value, expiry |-> e.expiry,
           has_expiry |-> e.has_expiry]
     ELSE store[k]]

\* kv_store.erase(it) (line 113).
erase(store, key) == [k \in (DOMAIN store) \ {key} |-> store[k]]

\* A lookup that finds nothing.
get_lookup_miss(store, key, t) == [store |-> store, response |-> RespNil]

\* A lookup through operator[], which inserts the key it does not find.
get_lookup_creates(store, key, t) ==
  IF key \in DOMAIN store
  THEN IF ~is_expired(store[key], t)
       THEN [store |-> store, response |-> simple_string(store[key].value)]
       ELSE [store |-> erase(store, key), response |-> RespNil]
  ELSE [store |-> store_value(store, key, <<>>),
        response |-> simple_string(<<>>)]

\* Lines 107-115 at instant t: the store and the reply of GET key.
get_lookup(store, key, t) ==
  IF key \in DOMAIN store
  THEN IF ~is_expired(store[key], t)
       THEN [store |-> store, response |-> simple_string(store[key].value)]
       ELSE [store |-> erase(store, key), response |-> RespNil]
  ELSE [store |-> store, response |-> RespNil]

\* What reading parts[2] of a two-element vector can yield when it does not
\* crash (line 101 with parts.size() == 2: undefined behaviour).
Garbage == {<<>>, <<"?">>}

\* kv_store[key] = e as one assignment (lines 96, 101).
assign(store, key, e) ==
  store_expiry(store_value(store, key, e.value), key, e)

\* handle_command(parts) as one call that runs alone at instant t on store:
\* the set of its outcomes [store, response, aborted].  There is more than
\* one outcome only where the behaviour is undefined.
handle_command(store, p, t) ==
  LET d == dispatch(p)
      returns(st, r) == [store |-> st, response |-> r, aborted |-> FALSE]
  IN  IF d.pc = "send" THEN {returns(store, d.response)}
      ELSE IF d.pc = "lock_get"
        THEN LET r == get_lookup(store, p[2], t)
             IN  {returns(r.store, r.response)}
      ELSE IF has_px_option(p)
        THEN LET px_millis == stol(p[5])
             IN  IF px_millis.throws THEN {returns(store, RespErrExpire)}
                 ELSE {returns(assign(store, p[2],
                                      ValueWithExpiry2(p[3], px_millis.val, t)),
                               RespOk)}
      ELSE IF Len(p) >= 3
        THEN {returns(assign(store, p[2], ValueWithExpiry1(p[3])), RespOk)}
      ELSE {returns(assign(store, p[2], ValueWithExpiry1(g)), RespOk) :
              g \in Garbage}
             \cup {[store |-> store, response |-> <<>>, aborted |-> TRUE]}

-----------------------------------------------------------------------------
(* Observers: the history of commands, as a client sees it.  A command     *)
(* begins when handle_client hands its request to handle_command and ends  *)
(* when its reply is handed to send.  They record; they decide nothing.    *)

ReqKind(p) ==
  IF Len(p) < 2 THEN "other"
  ELSE IF to_upper(p[1]) = CmdSET THEN "SET"
  ELSE IF to_upper(p[1]) = CmdGET THEN "GET"
  ELSE "other"

\* The command of request p, beginning now.
Describe(p) ==
  LET kind == ReqKind(p)
      px   == IF kind = "SET" /\ has_px_option(p) THEN stol(p[5])
              ELSE [throws |-> TRUE, val |-> 0]
  IN  [kind   |-> kind,
       key    |-> IF kind = "other" THEN <<>> ELSE p[2],
       val    |-> IF kind = "SET" /\ Len(p) >= 3 THEN p[3] ELSE <<>>,
       wild   |-> kind = "SET" /\ Len(p) = 2,
       has_px |-> ~px.throws,
       px     |-> px.val,
       lo     |-> IF kind = "GET" \/ ~px.throws THEN now ELSE 0]

\* What a GET may observe: no entry, a SET in flight, a completed SET.  lo
\* and hi are the instants the SET began and ended (kept for a SET with PX
\* only: they bound the instant its expiry was computed from).
AbsentCand(key) ==
  [st |-> "absent", key |-> key, val |-> <<>>, wild |-> FALSE,
   has_px |-> FALSE, px |-> 0, lo |-> 0, hi |-> 0]

InflightCand(d) ==
  [st |-> "inflight", key |-> d.key, val |-> d.val, wild |-> d.wild,
   has_px |-> d.has_px, px |-> d.px, lo |-> d.lo, hi |-> 0]

DoneCand(d, t) ==
  [st |-> "ok", key |-> d.key, val |-> d.val, wild |-> d.wild,
   has_px |-> d.has_px, px |-> d.px, lo |-> d.lo,
   hi |-> IF d.has_px THEN t ELSE 0]

\* The observers as one record, so that a step in which one command ends
\* and the next begins can apply both.
ObsNow ==
  [cand |-> cand, everset |-> everset, seen |-> seen, op |-> op,
   allowed |-> allowed]

SetObs(o) ==
  /\ cand' = o.cand
  /\ everset' = o.everset
  /\ seen' = o.seen
  /\ op' = o.op
  /\ allowed' = o.allowed

\* What a GET of key beginning now may observe: the completed SETs of key
\* not surely overwritten, the SETs of key in flight, and no entry unless
\* some SET of key has completed.
Candidates(o, key) ==
  {x \in o.cand : x.key = key}
    \cup {InflightCand(o.op[h]) :
            h \in {g \in Conns : o.op[g].kind = "SET" /\ o.op[g].key = key}}
    \cup (IF key \in o.everset THEN {} ELSE {AbsentCand(key)})

\* Command d begins on connection c.  A SET remembers what had completed
\* before it, and is one more thing the GETs in flight on its key may
\* observe.
ObsBegun(o, c, d) ==
  [cand    |-> o.cand,
   everset |-> o.everset,
   seen    |-> [o.seen EXCEPT ![c] =
                  IF d.kind = "SET" THEN {x \in o.cand : x.key = d.key}
                  ELSE {}],
   op      |-> [o.op EXCEPT ![c] = d],
   allowed |-> [g \in Conns |->
                  IF g = c
                  THEN IF d.kind = "GET" THEN Candidates(o, d.key) ELSE {}
                  ELSE IF /\ o.op[g].kind = "GET"
                          /\ d.kind = "SET"
                          /\ o.op[g].key = d.key
                       THEN o.allowed[g] \cup {InflightCand(d)}
                       ELSE o.allowed[g]]]

\* The command of c ends with reply response[c].  A SET that ends with +OK
\* surely overwrites what had completed before it began, and nothing else.
ObsEnded(o, c) ==
  LET d  == o.op[c]
      ok == d.kind = "SET" /\ response[c] = RespOk
      x  == DoneCand(d, now)
  IN  [cand    |-> IF ok THEN (o.cand \ o.seen[c]) \cup {x} ELSE o.cand,
       everset |-> IF ok THEN o.everset \cup {d.key} ELSE o.everset,
       seen    |-> [g \in Conns |->
                      IF g = c THEN {}
                      ELSE IF ok THEN o.seen[g] \ {x} ELSE o.seen[g]],
       op      |-> [o.op EXCEPT ![c] = NoOp],
       allowed |-> [o.allowed EXCEPT ![c] = {}]]

-----------------------------------------------------------------------------
(* handle_client, Server.cpp:121-148, and the steps of handle_command.     *)

\* bytes_read <= 0 (lines 129-132, 147): the peer closed or recv failed.
Disconnect(c) ==
  /\ ~aborted
  /\ pc[c] = "recv"
  /\ pc' = [pc EXCEPT ![c] = "closed"]
  /\ UNCHANGED <<kv_store, kv_mutex, now, aborted, incomplete_data, parts,
                 response, tmp, sock, out, obs_vars>>

\* The loop condition of line 138 on buffer buf, and lines 139-143 up to
\* the point where handle_command blocks on the lock or has its reply.  All
\* of it works on the thread's own data.  Without CR LF in the buffer the
\* thread goes back to recv; otherwise the buffer is cut after the first
\* CR LF, the cut is parsed and handle_command starts on the result.  An
\* exception leaving parse_resp leaves the thread function: std::terminate
\* ends the process.  o is the observers' record before this step's command
\* begins.
Loop(c, buf, o) ==
  LET pos == find_crlf(buf)
  IN  IF pos = -1
      THEN /\ pc' = [pc EXCEPT ![c] = "recv"]
           /\ incomplete_data' = [incomplete_data EXCEPT ![c] = buf]
           /\ parts' = [parts EXCEPT ![c] = <<>>]
           /\ response' = [response EXCEPT ![c] = <<>>]
           /\ aborted' = aborted
           /\ ncmd' = ncmd
           /\ SetObs(o)
      ELSE LET command == prefix(buf, pos + 2)
               r       == parse_resp(command)
               next    == dispatch(r.parts)
           IN  /\ incomplete_data' =
                    [incomplete_data EXCEPT ![c] = substr(buf, pos + 2)]
               /\ IF r.throws
                  THEN /\ aborted' = TRUE
                       /\ pc' = pc
                       /\ parts' = [parts EXCEPT ![c] = <<>>]
                       /\ response' = [response EXCEPT ![c] = <<>>]
                       /\ ncmd' = ncmd
                       /\ SetObs(o)
                  ELSE /\ aborted' = aborted
                       /\ parts' = [parts EXCEPT ![c] = r.parts]
                       /\ pc' = [pc EXCEPT ![c] = next.pc]
                       /\ response' = [response EXCEPT ![c] = next.response]
                       /\ ncmd' = ncmd + 1
                       /\ SetObs(ObsBegun(o, c, Describe(r.parts)))

\* SET, lines 90-101: the lock is taken, then the temporary is constructed
\* (C++17 evaluates the right operand of the assignment first).
LockSet(c) ==
  /\ ~aborted
  /\ pc[c] = "lock_set"
  /\ can_lock
  /\ kv_mutex' = c
  /\ UNCHANGED <<kv_store, now, incomplete_data, parts, sock, out, obs_vars>>
  /\ LET p == parts[c]
     IN  IF has_px_option(p)
         THEN LET px_millis == stol(p[5])
              IN  /\ aborted' = aborted
                  /\ IF px_millis.throws
                     THEN /\ response' =
                               [response EXCEPT ![c] = RespErrExpire]
                          /\ pc' = [pc EXCEPT ![c] = "unlock"]
                          /\ tmp' = tmp
                     ELSE /\ tmp' = [tmp EXCEPT ![c] =
                               ValueWithExpiry2(p[3], px_millis.val, now)]
                          /\ pc' = [pc EXCEPT ![c] = "assign_value"]
                          /\ response' = response
         ELSE IF Len(p) >= 3
         THEN /\ tmp' = [tmp EXCEPT ![c] = ValueWithExpiry1(p[3])]
              /\ pc' = [pc EXCEPT ![c] = "assign_value"]
              /\ UNCHANGED <<aborted, response>>
         ELSE \/ /\ \E g \in Garbage :
                      tmp' = [tmp EXCEPT ![c] = ValueWithExpiry1(g)]
                 /\ pc' = [pc EXCEPT ![c] = "assign_value"]
                 /\ UNCHANGED <<aborted, response>>
              \/ /\ aborted' = TRUE
                 /\ UNCHANGED <<tmp, pc, response>>

\* kv_store[parts[1]] = tmp, first half: operator[] and the value member.
AssignValue(c) ==
  /\ ~aborted
  /\ pc[c] = "assign_value"
  /\ kv_store' = store_value(kv_store, parts[c][2], tmp[c].value)
  /\ pc' = [pc EXCEPT ![c] = "assign_expiry"]
  /\ UNCHANGED <<kv_mutex, now, aborted, incomplete_data, parts, response,
                 tmp, sock, out, obs_vars>>

\* A return from SET that skips the release of the mutex.
AssignExpiry_returns(c) ==
  /\ ~aborted
  /\ pc[c] = "assign_expiry"
  /\ kv_store' = store_expiry(kv_store, parts[c][2], tmp[c])
  /\ tmp' = [tmp EXCEPT ![c] = NoEntry]
  /\ response' = [response EXCEPT ![c] = RespOk]
  /\ pc' = [pc EXCEPT ![c] = "send"]
  /\ UNCHANGED <<kv_mutex, now, aborted, incomplete_data, parts, sock, out,
                 obs_vars>>

\* Second half: the expiry members; the temporary is destroyed; then
\* return "+OK\r\n" (line 103).
AssignExpiry(c) ==
  /\ ~aborted
  /\ pc[c] = "assign_expiry"
  /\ kv_store' = store_expiry(kv_store, parts[c][2], tmp[c])
  /\ tmp' = [tmp EXCEPT ![c] = NoEntry]
  /\ response' = [response EXCEPT ![c] = RespOk]
  /\ pc' = [pc EXCEPT ![c] = "unlock"]
  /\ UNCHANGED <<kv_mutex, now, aborted, incomplete_data, parts, sock, out,
                 obs_vars>>

\* GET, lines 106-115, under the lock.
LockGet(c) ==
  /\ ~aborted
  /\ pc[c] = "lock_get"
  /\ can_lock
  /\ kv_mutex' = c
  /\ LET r == get_lookup(kv_store, parts[c][2], now)
     IN  /\ kv_store' = r.store
         /\ response' = [response EXCEPT ![c] = r.response]
  /\ pc' = [pc EXCEPT ![c] = "unlock"]
  /\ UNCHANGED <<now, aborted, incomplete_data, parts, tmp, sock, out,
                 obs_vars>>

\* A return that leaves the mutex locked.
Unlock_keeps(c) ==
  /\ ~aborted
  /\ pc[c] = "unlock"
  /\ pc' = [pc EXCEPT ![c] = "send"]
  /\ UNCHANGED <<kv_store, kv_mutex, now, aborted, incomplete_data, parts,
                 response, tmp, sock, out, obs_vars>>

\* The lock_guard's destructor on return (lines 98, 103, 110, 115).
Unlock(c) ==
  /\ ~aborted
  /\ pc[c] = "unlock"
  /\ kv_mutex' = NoOwner
  /\ pc' = [pc EXCEPT ![c] = "send"]
  /\ UNCHANGED <<kv_store, now, aborted, incomplete_data, parts, response,
                 tmp, sock, out, obs_vars>>

\* A send that puts the reply before the replies already written.
Send_prepend(c) ==
  /\ ~aborted
  /\ pc[c] = "send"
  /\ out' = [out EXCEPT ![c] = response[c] \o out[c]]
  /\ Loop(c, incomplete_data[c], ObsEnded(ObsNow, c))
  /\ UNCHANGED <<kv_store, kv_mutex, now, tmp, sock, sent>>

\* send (line 144); parts and response go out of scope (line 145); then
\* the loop of line 138 goes on with what is left in the buffer.
Send(c) ==
  /\ ~aborted
  /\ pc[c] = "send"
  /\ out' = [out EXCEPT ![c] = out[c] \o response[c]]
  /\ Loop(c, incomplete_data[c], ObsEnded(ObsNow, c))
  /\ UNCHANGED <<kv_store, kv_mutex, now, tmp, sock, sent>>

\* steady_clock advances by a millisecond, at most max times.
Tick(max) ==
  /\ ~aborted
  /\ now < max * NsPerMs
  /\ now' = now + NsPerMs
  /\ UNCHANGED <<kv_store, kv_mutex, aborted, pc, incomplete_data, parts,
                 response, tmp, sock, out, obs_vars>>

\* The steps every specification shares.
Serve(c) ==
  \/ LockSet(c)
  \/ AssignValue(c)
  \/ AssignExpiry(c)
  \/ LockGet(c)
  \/ Unlock(c)
  \/ Send(c)

-----------------------------------------------------------------------------
(* The clients.  A request reaches handle_command only on a line that has  *)
(* no CR LF before its end, so a client that wants a command executed      *)
(* separates the elements by LF alone and ends the line with LF CR LF.     *)

RECURSIVE lf_bulks(_)
lf_bulks(args) ==
  IF args = <<>> THEN <<>>
  ELSE <<"$", DigitChars[Len(Head(args)) + 1], LF>> \o Head(args) \o <<LF>>
         \o lf_bulks(Tail(args))

LfLine(args) ==
  <<"*", DigitChars[Len(args) + 1], LF>> \o lf_bulks(args) \o CRLF

KeyK == <<"k">>
ValA == <<"a">>
ValB == <<"b">>

ReqPing     == <<CmdPING>>
ReqEcho0    == <<CmdECHO>>
ReqEcho1    == <<CmdECHO, <<"m">>>>
ReqEcho2    == <<CmdECHO, <<"m">>, <<"n">>>>
ReqSetA     == <<CmdSET, KeyK, ValA>>
ReqSetBPx0  == <<CmdSET, KeyK, ValB, OptPX, <<"0">>>>
ReqSetBPx1  == <<CmdSET, KeyK, ValB, OptPX, <<"1">>>>
ReqSetBadPx == <<CmdSET, KeyK, ValA, OptPX, <<"a","b","c">>>>
ReqSetNoVal == <<CmdSET, KeyK>>
ReqSetNoKey == <<CmdSET>>
ReqGet      == <<CmdGET, KeyK>>
ReqGetExtra == <<CmdGET, KeyK, <<"x">>>>
ReqGetNoKey == <<CmdGET>>

\* Other spellings of the command names, PX values that are not the text
\* of a non-negative integer, and a second key.
KeyJ == <<"j">>
ReqSetMixed == <<<<"S","e","T">>, KeyK, ValA>>
ReqGetLower == <<<<"g","e","t">>, KeyK>>
ReqSetNegPx == <<CmdSET, KeyK, ValB, OptPX, <<"-","1">>>>
ReqSetPx1x  == <<CmdSET, KeyK, ValB, OptPX, <<"1","x">>>>
ReqSetJ     == <<CmdSET, KeyJ, ValA>>

Requests ==
  {ReqPing, ReqEcho0, ReqEcho1, ReqEcho2, ReqSetA, ReqSetBPx0, ReqSetBPx1,
   ReqSetBadPx, ReqSetNoVal, ReqSetNoKey, ReqGet, ReqGetExtra, ReqGetNoKey,
   ReqSetMixed, ReqGetLower, ReqSetNegPx, ReqSetPx1x, ReqSetJ}

\* The requests of the clients of Spec: SET with and without PX, and GET.
StoreRequests == {ReqSetA, ReqSetBPx0, ReqGet}

\* recv (line 127) returns one whole line, appended to the buffer (134);
\* then the loop of line 138.
RecvLine(c) ==
  /\ ~aborted
  /\ pc[c] = "recv"
  /\ ncmd < MaxCmds
  /\ \E req \in StoreRequests :
       Loop(c, incomplete_data[c] \o LfLine(req), ObsNow)
  /\ UNCHANGED <<kv_store, kv_mutex, now, tmp, sock, out, sent>>

\* Connection threads run concurrently; SET and GET on one key; the clock.
Next ==
  \/ \E c \in Conns : Serve(c) \/ RecvLine(c)
  \/ Tick(MaxTicks)

Spec == Init /\ [][Next]_vars

\* The threads of Spec under fair scheduling, the clock left out: a thread
\* that can take a step of handle_command or send eventually takes it, and
\* a thread that finds the mutex free again and again eventually locks it.
\* The clients are under no obligation.
Locks(c) == LockSet(c) \/ LockGet(c)

Proceeds(c) == AssignValue(c) \/ AssignExpiry(c) \/ Unlock(c) \/ Send(c)

NextFair == \E c \in Conns : Locks(c) \/ Proceeds(c) \/ RecvLine(c)

SpecFair ==
  /\ Init
  /\ [][NextFair]_vars
  /\ \A c \in Conns : SF_vars(Locks(c)) /\ WF_vars(Proceeds(c))

-----------------------------------------------------------------------------
(* SpecCmd: one client sends any request of Requests, one at a time.       *)

FirstConn == 1

RecvCmd(c) ==
  /\ ~aborted
  /\ pc[c] = "recv"
  /\ ncmd < MaxSeqCmds
  /\ \E req \in Requests :
       Loop(c, incomplete_data[c] \o LfLine(req), ObsNow)
  /\ UNCHANGED <<kv_store, kv_mutex, now, tmp, sock, out, sent>>

NextCmd ==
  \/ Serve(FirstConn)
  \/ RecvCmd(FirstConn)
  \/ Tick(MaxSeqTicks)

SpecCmd == Init /\ [][NextCmd]_vars

-----------------------------------------------------------------------------
(* SpecWire: one client sends frames and other chunks of bytes, and recv   *)
(* returns them in pieces.                                                 *)

RECURSIVE bulks(_)
bulks(args) ==
  IF args = <<>> THEN <<>>
  ELSE <<"$", DigitChars[Len(Head(args)) + 1]>> \o CRLF \o Head(args) \o CRLF
         \o bulks(Tail(args))

\* The frame of args: *N CR LF, then N times $len CR LF bytes CR LF.
Frame(args) == <<"*", DigitChars[Len(args) + 1]>> \o CRLF \o bulks(args)

KeyFoo == <<"f","o","o">>
ValBar == <<"b","a","r">>
FramePing   == Frame(<<CmdPING>>)
FrameSetFoo == Frame(<<CmdSET, KeyFoo, ValBar>>)
FrameGetFoo == Frame(<<CmdGET, KeyFoo>>)

\* Not frames: a non-numeric array length, and a line without the sigil.
BadLength == <<"*", "x">> \o CRLF
BadSigil  == CmdPING \o CRLF

WellFormed == {FramePing, FrameSetFoo, FrameGetFoo}
Malformed  == {BadLength, BadSigil}
WireChunks == WellFormed \cup Malformed \cup {LfLine(ReqSetA), LfLine(ReqGet)}

\* The client of connection c writes a chunk to its socket.
ClientSend(c) ==
  /\ ~aborted
  /\ pc[c] # "closed"
  /\ Len(sent[c]) < MaxFrames
  /\ \E f \in WireChunks :
       /\ sock' = [sock EXCEPT ![c] = sock[c] \o f]
       /\ sent' = [sent EXCEPT ![c] = Append(sent[c], f)]
  /\ UNCHANGED <<kv_store, kv_mutex, now, aborted, pc, incomplete_data,
                 parts, response, tmp, out, ncmd, op, cand, everset, seen,
                 allowed>>

\* The size of the buffer of line 122.
BUFFER_SIZE == 1024

Min(a, b) == IF a < b THEN a ELSE b

\* recv (line 127) returns some of the bytes that have arrived, at most
\* BUFFER_SIZE - 1; they are appended to the buffer (line 134); then the
\* loop of line 138.
Recv(c) ==
  /\ ~aborted
  /\ pc[c] = "recv"
  /\ sock[c] # <<>>
  /\ \E bytes_read \in 1..Min(Len(sock[c]), BUFFER_SIZE - 1) :
       /\ sock' = [sock EXCEPT ![c] = substr(sock[c], bytes_read)]
       /\ Loop(c, incomplete_data[c] \o prefix(sock[c], bytes_read), ObsNow)
  /\ UNCHANGED <<kv_store, kv_mutex, now, tmp, out, sent>>

NextWire ==
  \/ Serve(FirstConn)
  \/ ClientSend(FirstConn)
  \/ Recv(FirstConn)
  \/ Disconnect(FirstConn)

SpecWire == Init /\ [][NextWire]_vars

-----------------------------------------------------------------------------
(* SpecIso: every connection has a client; a client sends whole lines or   *)
(* a whole frame, among them lines that are no frame, or goes away.        *)

\* ECHO of a payload that holds CR LF, as a frame.
EchoCrlf == <<CmdECHO, <<"a", CR, LF, "b">>>>
FrameEchoCrlf == Frame(EchoCrlf)

\* A header with a negative length.
BadNegative == <<"*", "-", "1">> \o CRLF

IsoLines ==
  Malformed \cup {BadNegative, FrameEchoCrlf, LfLine(ReqSetA), LfLine(ReqGet)}

RecvAny(c) ==
  /\ ~aborted
  /\ pc[c] = "recv"
  /\ ncmd < MaxCmds
  /\ \E line \in IsoLines :
       /\ Loop(c, incomplete_data[c] \o line, ObsNow)
       /\ sent' = [sent EXCEPT ![c] = Append(sent[c], line)]
  /\ UNCHANGED <<kv_store, kv_mutex, now, tmp, sock, out>>

NextIso ==
  \E c \in Conns : Serve(c) \/ RecvAny(c) \/ Disconnect(c)

SpecIso == Init /\ [][NextIso]_vars

-----------------------------------------------------------------------------
(* Properties.  A GET in flight on g has its reply from the moment it      *)
(* leaves the lookup (pc unlock, send).                                    *)

IsPrefix(a, b) == Len(a) <= Len(b) /\ prefix(b, Len(a)) = a

Replied(g) == pc[g] \in {"unlock", "send"}

GetInFlight(g) == op[g].kind = "GET" /\ Len(parts[g]) = 2

SetInFlight(key) ==
  \E c \in Conns : op[c].kind = "SET" /\ op[c].key = key

\* The latest instant at which the entry of completed SET x can expire, and
\* the earliest.
ExpiryMax(x) == x.hi + x.px * NsPerMs
ExpiryMin(x) == x.lo + x.px * NsPerMs

\* reply, to a GET that began at lo and has its reply at t, is what the GET
\* observes of x: no entry is Nil; a SET without PX is its value; a SET
\* with PX is its value unless the expiry passed before the GET began, and
\* Nil only if the expiry has passed.
Consistent(x, reply, lo, t) ==
  IF x.st = "absent" THEN reply = RespNil
  ELSE IF x.wild THEN first_char(reply) = "+"
  ELSE IF ~x.has_px THEN reply = simple_string(x.val)
  ELSE \/ /\ reply = simple_string(x.val)
          /\ x.st = "inflight" \/ lo <= ExpiryMax(x)
       \/ /\ reply = RespNil
          /\ t > ExpiryMin(x)

\* C1: a GET k that starts after SET k v returned +OK replies v, on every
\* connection, unless a later SET k overwrote the entry or its expiry
\* passed: the reply of every GET is what it observes of one of the SETs
\* of k that completed before it and were not overwritten, or of a SET of k
\* in flight with it, and is Nil for want of a SET only if none completed.
C1_VisibilityOfCompletedSet ==
  \A g \in Conns :
    (GetInFlight(g) /\ Replied(g)) =>
      \E x \in allowed[g] : Consistent(x, response[g], op[g].lo, now)

\* A GET on a connection that never sent a reply has the value of a SET
\* another connection completed.
C1_Witness ==
  \E g \in Conns :
    /\ GetInFlight(g) /\ pc[g] = "send"
    /\ out[g] = <<>>
    /\ \E x \in allowed[g] : x.st = "ok" /\ response[g] = simple_string(x.val)

\* The replies the frames call for, foo being set or not.
ReplyTo(f, foo_set) ==
  IF f = FramePing THEN RespPong
  ELSE IF f = FrameSetFoo THEN RespOk
  ELSE IF foo_set THEN simple_string(ValBar) ELSE RespNil

RECURSIVE Replies(_, _)
Replies(frames, foo_set) ==
  IF frames = <<>> THEN <<>>
  ELSE ReplyTo(Head(frames), foo_set)
         \o Replies(Tail(frames), foo_set \/ Head(frames) = FrameSetFoo)

OnlyWellFormed(c) == \A i \in 1..Len(sent[c]) : sent[c][i] \in WellFormed

Quiescent(c) ==
  pc[c] = "recv" /\ sock[c] = <<>> /\ incomplete_data[c] = <<>>

\* C2: on a connection that received well-formed frames only, the bytes
\* written back are one reply per frame, in order, +PONG for PING, +OK for
\* SET foo bar, +bar for a following GET foo, and no other bytes.
C2_WireReplies ==
  \A c \in Conns :
    OnlyWellFormed(c) =>
      /\ IsPrefix(out[c], Replies(sent[c], FALSE))
      /\ Quiescent(c) => out[c] = Replies(sent[c], FALSE)

\* C3: once SET k v PX ms (ms >= 0) returned +OK, a GET k that begins more
\* than ms milliseconds after it, with no SET k in between, replies Nil.
C3_ExpiryTakesEffect ==
  \A g \in Conns :
    ( /\ GetInFlight(g) /\ Replied(g)
      /\ allowed[g] # {}
      /\ \A x \in allowed[g] :
           /\ x.st = "ok" /\ x.has_px /\ x.px >= 0
           /\ op[g].lo > ExpiryMax(x) )
    => response[g] = RespNil

\* A GET that began more than 1 ms after SET k b PX 1 returned has Nil.
C3_Witness ==
  \E g \in Conns :
    /\ GetInFlight(g) /\ pc[g] = "send"
    /\ response[g] = RespNil
    /\ \E x \in allowed[g] :
         /\ allowed[g] = {x}
         /\ x.st = "ok" /\ x.has_px /\ x.px = 1
         /\ op[g].lo > ExpiryMax(x)

\* Entry e is the (value, expiry) pair completed SET x wrote.
Written(e, x) ==
  \/ x.wild
  \/ /\ e.value = x.val
     /\ e.has_expiry = x.has_px
     /\ x.has_px => (ExpiryMin(x) <= e.expiry /\ e.expiry <= ExpiryMax(x))

\* C4: when the SETs of k have returned, the entry under k is the (value,
\* expiry) pair one of them wrote, never the value of one with the expiry
\* of another, never any other value.
C4_NoTornWrites ==
  \A k \in DOMAIN kv_store :
    ~SetInFlight(k) =>
      \E x \in cand : x.key = k /\ Written(kv_store[k], x)

\* Two different SETs of k ran concurrently and both have returned.
C4_Witness ==
  /\ ~SetInFlight(KeyK)
  /\ KeyK \in DOMAIN kv_store
  /\ Cardinality({x \in cand : x.key = KeyK}) = 2

NonNumeric(s) == \A i \in 1..Len(s) : ~isdigit(s[i])

\* The request in flight on c is SET k v PX m with m non-numeric.
BadPxInFlight(c) ==
  /\ Len(parts[c]) = 5
  /\ to_upper(parts[c][1]) = CmdSET
  /\ to_upper(parts[c][4]) = OptPX
  /\ NonNumeric(parts[c][5])

C5_Reply ==
  \A c \in Conns :
    (BadPxInFlight(c) /\ pc[c] = "send") =>
      (response[c] = RespErrExpire /\ kv_mutex # c)

C5_Step ==
  \A c \in Conns :
    (BadPxInFlight(c) /\ pc'[c] # pc[c]) => kv_store' = kv_store

\* C5: SET k v PX m with m non-numeric returns the invalid-expire-time
\* error, no step of it changes kv_store (every key keeps its value and its
\* expiry), and the mutex is released when it returns.
C5_FailedSetLeavesStore == []C5_Reply /\ [][C5_Step]_vars

\* The failed SET has returned while k holds an entry with an expiry.
C5_Witness ==
  \E c \in Conns :
    /\ BadPxInFlight(c) /\ pc[c] = "send"
    /\ response[c] = RespErrExpire
    /\ KeyK \in DOMAIN kv_store /\ kv_store[KeyK].has_expiry

\* The request in flight on c has the wrong number of arguments.
ArityError(c) ==
  /\ Len(parts[c]) >= 1
  /\ LET command == to_upper(parts[c][1])
     IN  \/ command = CmdSET /\ Len(parts[c]) < 3
         \/ command = CmdGET /\ Len(parts[c]) # 2
         \/ command = CmdECHO /\ Len(parts[c]) # 2

C6_Step ==
  \A c \in Conns :
    (ArityError(c) /\ pc'[c] # pc[c]) => kv_store' = kv_store

\* C6: no step of a command with the wrong number of arguments (SET without
\* key and value, GET or ECHO without exactly one argument) changes
\* kv_store.
C6_ArityErrorsNeverMutate == [][C6_Step]_vars

\* C7: when SET k v without PX returns +OK the entry under k has value v
\* and no expiry, whatever k held before; and a GET k that can observe only
\* completed SETs of k without PX of value v replies v.
C7_SetReplacesWholesale ==
  /\ \A c \in Conns :
       ( /\ op[c].kind = "SET" /\ Len(parts[c]) = 3
         /\ pc[c] = "unlock" /\ response[c] = RespOk )
       => /\ parts[c][2] \in DOMAIN kv_store
          /\ kv_store[parts[c][2]].value = parts[c][3]
          /\ ~kv_store[parts[c][2]].has_expiry
  /\ \A g \in Conns :
       (GetInFlight(g) /\ Replied(g)) =>
         \A v \in {x.val : x \in allowed[g]} :
           (\A x \in allowed[g] :
              x.st = "ok" /\ ~x.has_px /\ ~x.wild /\ x.val = v)
           => response[g] = simple_string(v)

\* SET k a has written over an entry whose expiry had passed.
C7_Witness ==
  \E c \in Conns :
    /\ op[c].kind = "SET" /\ Len(parts[c]) = 3
    /\ pc[c] = "unlock" /\ response[c] = RespOk
    /\ \E x \in cand :
         x.key = parts[c][2] /\ x.has_px /\ now > ExpiryMax(x)

\* The GET in flight on g is of a key no SET has named so far.
NeverSetGet(g) ==
  GetInFlight(g) /\ allowed[g] = {AbsentCand(op[g].key)}

\* C8: a GET k of a key no SET has named replies Nil, and the store has no
\* entry for k before, during and after it.
C8_GetNeverSetKey ==
  \A g \in Conns :
    NeverSetGet(g) =>
      /\ op[g].key \notin DOMAIN kv_store
      /\ Replied(g) => response[g] = RespNil

\* Such a GET has its reply.
C8_Witness ==
  \E g \in Conns :
    /\ NeverSetGet(g) /\ pc[g] = "send"
    /\ response[g] = RespNil

\* C9: ECHO with one argument msg replies msg; ECHO with any other number
\* of arguments replies an error, a reply starting with -ERR.
C9_EchoArity ==
  \A c \in Conns :
    ( /\ pc[c] = "send"
      /\ Len(parts[c]) >= 1
      /\ to_upper(parts[c][1]) = CmdECHO )
    => IF Len(parts[c]) = 2
       THEN response[c] = simple_string(parts[c][2])
       ELSE IsPrefix(ErrPrefix, response[c])

\* Connection c received a line that is no frame.
GotMalformed(c) == \E i \in 1..Len(sent[c]) : sent[c][i] \in Malformed

\* C10: a malformed frame on one connection ends at most that connection's
\* session: a session that received none keeps running.
C10_SessionIsolation ==
  \A c \in Conns : ~GotMalformed(c) => ~aborted

RECURSIVE Flat(_)
Flat(chunks) ==
  IF chunks = <<>> THEN <<>> ELSE Head(chunks) \o Flat(Tail(chunks))

\* The bytes of connection c that have left its buffer: all it was sent but
\* what is still in the socket or in incomplete_data.
Consumed(c) ==
  LET all == Flat(sent[c])
  IN  prefix(all, Len(all) - Len(sock[c]) - Len(incomplete_data[c]))

\* The replies to the requests in buf, one after the other in the order of
\* the bytes, each running alone on the store the one before it left.
RECURSIVE RepliesInOrder(_, _)
RepliesInOrder(buf, store) ==
  LET pos == find_crlf(buf)
  IN  IF pos = -1 THEN <<>>
      ELSE LET r == parse_resp(prefix(buf, pos + 2))
           IN  IF r.throws THEN <<>>
               ELSE LET o == CHOOSE o \in handle_command(store, r.parts, now) :
                               TRUE
                    IN  <<o.response>>
                          \o RepliesInOrder(substr(buf, pos + 2), o.store)

InFlight(c) == pc[c] \notin {"recv", "closed"}

\* C11: on one connection the reply to a request is handed to send before
\* the next request is dispatched: the bytes written are the replies to the
\* requests before the one in flight, in the order received, each computed
\* on the store its predecessors left, also when one read brings several.
C11_PerConnectionFifo ==
  \A c \in Conns :
    ~aborted =>
      LET replies == RepliesInOrder(Consumed(c), EmptyStore)
          done    == IF InFlight(c) THEN Len(replies) - 1 ELSE Len(replies)
      IN  /\ done >= 0
          /\ out[c] = Flat(SubSeq(replies, 1, done))
          /\ pc[c] = "send" => response[c] = replies[Len(replies)]

\* SET k a is about to be answered while the GET k that arrived in the same
\* read waits in the buffer.
C11_Witness ==
  \E c \in Conns :
    /\ pc[c] = "send"
    /\ parts[c] = ReqSetA /\ response[c] = RespOk
    /\ incomplete_data[c] = LfLine(ReqGet)

\* The arguments the frames of the clients declare.
FrameArgs == {EchoCrlf, <<CmdPING>>, <<CmdSET, KeyFoo, ValBar>>,
              <<CmdGET, KeyFoo>>}

IsFrame(chunk) == \E a \in FrameArgs : Frame(a) = chunk

OnlyFrames(c) == \A i \in 1..Len(sent[c]) : IsFrame(sent[c][i])

\* C12: the decoder yields the declared arguments of a frame, byte for
\* byte, also when a payload holds CR LF: on a connection that was sent
\* frames only, the request dispatched is the argument list of one of the
\* frames, and what has left the buffer then ends with that frame.
C12_BinarySafeDecoding ==
  \A c \in Conns :
    (OnlyFrames(c) /\ InFlight(c) /\ ~aborted) =>
      \E i \in 1..Len(sent[c]) :
        /\ Frame(parts[c]) = sent[c][i]
        /\ Consumed(c) = Flat(SubSeq(sent[c], 1, i))

\* The spellings of letter c, and of name s, in upper and lower case.
CaseVariants(c) ==
  {c} \cup {LowerCase[i] : i \in {j \in 1..Len(LowerCase) :
                                   c \in {LowerCase[j], UpperCase[j]}}}
      \cup {UpperCase[i] : i \in {j \in 1..Len(LowerCase) :
                                   c \in {LowerCase[j], UpperCase[j]}}}

RECURSIVE Spellings(_)
Spellings(s) ==
  IF s = <<>> THEN {<<>>}
  ELSE {<<h>> \o t : h \in CaseVariants(Head(s)), t \in Spellings(Tail(s))}

\* The call of handle_command on c has not touched the store yet.
Starting(c) ==
  \/ pc[c] \in {"lock_set", "lock_get"}
  \/ pc[c] = "send" /\ dispatch(parts[c]).pc = "send"

\* C13: for every request and every store it may start on, handle_command
\* on the request with its command name in any other upper/lower-case
\* spelling returns the same reply and leaves the same store.
C13_CaseInsensitiveNames ==
  \A c \in Conns :
    (Starting(c) /\ Len(parts[c]) > 0) =>
      \A s \in Spellings(parts[c][1]) :
        handle_command(kv_store, <<s>> \o Tail(parts[c]), now)
          = handle_command(kv_store, parts[c], now)

\* get k starts on a store that holds k.
C13_Witness ==
  \E c \in Conns :
    /\ Starting(c)
    /\ parts[c] = ReqGetLower
    /\ KeyK \in DOMAIN kv_store

C14_Step ==
  \A c \in Conns :
    ( /\ pc[c] = "lock_get" /\ pc'[c] = "unlock"
      /\ Len(parts[c]) = 2
      /\ parts[c][2] \in DOMAIN kv_store )
    => LET k == parts[c][2]
           e == kv_store[k]
       IN  IF e.has_expiry /\ e.expiry <= now
           THEN /\ k \notin DOMAIN kv_store'
                /\ response'[c] = RespNil
                /\ kv_mutex' = c
           ELSE /\ kv_store' = kv_store
                /\ response'[c] = simple_string(e.value)

\* C14: a GET k that finds an entry whose expiry is set and is at or before
\* the current instant, the instant itself included, deletes the entry
\* under the lock and replies Nil; it replies the value only when the
\* expiry is unset or later than the current instant.
C14_ExpiryBoundaryOnGet == [][C14_Step]_vars

\* C15: a thread that is in recv or send, or has closed its connection,
\* does not hold kv_mutex: the lock is taken and released inside one call
\* of handle_command, on every return path.
C15_NoLockAcrossIo ==
  \A c \in Conns : pc[c] \in {"recv", "send", "closed"} => kv_mutex # c

\* The invalid-PX error is about to be sent, and the sender holds no lock.
C15_Witness ==
  \E c \in Conns :
    /\ pc[c] = "send"
    /\ parts[c] = ReqSetBadPx /\ response[c] = RespErrExpire
    /\ kv_mutex = NoOwner

\* C16: a buffer that holds only a proper prefix of a frame loses no byte,
\* and no command is dispatched and no reply sent for it: on a connection
\* that was sent well-formed frames only, what has left the buffer is a
\* number of whole frames, and before the first frame is whole nothing is
\* dispatched or sent.
C16_PartialFramesConsumeNothing ==
  \A c \in Conns :
    OnlyWellFormed(c) =>
      /\ \E i \in 0..Len(sent[c]) :
           Consumed(c) = Flat(SubSeq(sent[c], 1, i))
      /\ Consumed(c) = <<>> => (~InFlight(c) /\ out[c] = <<>>)

\* Connection c has decoded input that is no valid frame.
DecodedInvalid(c) ==
  \E i \in 1..Len(sent[c]) : sent[c][i] \in Malformed \cup {BadNegative}

\* C17: a session that decodes input that is no valid frame (wrong sigil,
\* non-numeric or negative length) sends at most one error reply and
\* closes: it is sending that reply or is closed, the process runs on, and
\* nothing received after the invalid input is dispatched.
C17_MalformedInputCloses ==
  \A c \in Conns :
    DecodedInvalid(c) =>
      /\ ~aborted
      /\ pc[c] \in {"send", "closed"}
      /\ sent[c][Len(sent[c])] \in Malformed \cup {BadNegative}

\* The request in flight on c is SET k v PX m.
PxInFlight(c) ==
  /\ Len(parts[c]) = 5
  /\ to_upper(parts[c][1]) = CmdSET
  /\ to_upper(parts[c][4]) = OptPX

\* s is the decimal text of a non-negative integer.
IsDecimal(s) == Len(s) > 0 /\ \A i \in 1..Len(s) : isdigit(s[i])

C18_Reply ==
  \A c \in Conns :
    (PxInFlight(c) /\ pc[c] = "send") =>
      response[c] = IF IsDecimal(parts[c][5]) THEN RespOk ELSE RespErrExpire

C18_Step ==
  \A c \in Conns :
    (PxInFlight(c) /\ ~IsDecimal(parts[c][5]) /\ pc'[c] # pc[c]) =>
      kv_store' = kv_store

\* C18: SET k v PX m replies +OK and stores the entry only when m is the
\* decimal text of a non-negative integer; for every other m (negative,
\* digits followed by other characters, empty, non-numeric) it replies the
\* invalid-expire-time error and no step of it changes the store.
C18_PxValidation == []C18_Reply /\ [][C18_Step]_vars

\* This step changes the store only as the command in flight on c may: the
\* entries of the keys it does not name stay, and either it is a SET and
\* its key has an entry afterwards, or it is a GET and the entry of its
\* key, whose expiry had come, is gone.
ChangedBy(c) ==
  /\ pc'[c] # pc[c]
  /\ Len(parts[c]) >= 2
  /\ LET k == parts[c][2]
         command == to_upper(parts[c][1])
     IN  /\ \A j \in ((DOMAIN kv_store) \cup (DOMAIN kv_store')) \ {k} :
              /\ j \in DOMAIN kv_store /\ j \in DOMAIN kv_store'
              /\ kv_store'[j] = kv_store[j]
         /\ \/ command = CmdSET /\ k \in DOMAIN kv_store'
            \/ /\ command = CmdGET
               /\ k \in DOMAIN kv_store /\ k \notin DOMAIN kv_store'
               /\ kv_store[k].has_expiry /\ kv_store[k].expiry <= now

C19_Step == kv_store' # kv_store => \E c \in Conns : ChangedBy(c)

\* C19: a key leaves kv_store only by a GET of that key that finds its
\* entry expired; the passing of time, GET of a live or absent key, PING,
\* ECHO and unknown commands leave kv_store unchanged; GET or SET of k never
\* changes the entry of another key.
C19_LazyExpiryOnlyRemoval == [][C19_Step]_vars

\* A GET has removed the expired entry of k.
C19_Witness ==
  \E c \in Conns :
    /\ pc[c] = "unlock"
    /\ op[c].kind = "GET" /\ op[c].key = KeyK
    /\ response[c] = RespNil
    /\ KeyK \in everset /\ KeyK \notin DOMAIN kv_store

\* Thread c is in a critical section of the store; it waits for the mutex.
Critical(c) == pc[c] \in {"assign_value", "assign_expiry", "unlock"}
Waiting(c) == pc[c] \in {"lock_set", "lock_get"}

\* At most one thread is in a critical section and it owns the mutex; and
\* when a thread waits, the mutex is free or its owner can go on.
C20_Exclusive ==
  /\ \A c, h \in Conns : (Critical(c) /\ Critical(h)) => c = h
  /\ \A c \in Conns : Critical(c) => kv_mutex = c
  /\ (\E c \in Conns : Waiting(c)) =>
       (kv_mutex = NoOwner \/ \E h \in Conns : kv_mutex = h /\ Critical(h))

\* C20: at most one thread is inside a store critical section, no state has
\* all threads blocked on kv_mutex, and under fair scheduling every thread
\* that starts a SET or GET eventually has its reply and holds no lock.
C20_DeadlockFreedom ==
  /\ []C20_Exclusive
  /\ \A c \in Conns :
       Waiting(c) ~> (pc[c] = "send" /\ kv_mutex # c)

\* A thread waits for the mutex another thread owns.
C20_Witness ==
  \E c, h \in Conns :
    c # h /\ Waiting(c) /\ kv_mutex = h /\ Critical(h)

=============================================================================
